---- MODULE Spec2Model ----
(***************************************************************************)
(* Cross-window timer synchronisation of the activity tracker.             *)
(*                                                                         *)
(* Two browsing contexts (the main window and the popup window) each run   *)
(* the timerSync module (utils/timerSync.ts), a Timer component            *)
(* (components/Timer.tsx) and their root component (App.tsx or             *)
(* TimerPopup.tsx).  They share localStorage and exchange TimerSyncMessage *)
(* values through a BroadcastChannel or, without one, through storage      *)
(* events.                                                                 *)
(*                                                                         *)
(* Times are integers in milliseconds.  An ISO string is modelled by the   *)
(* instant it denotes; toISO truncates to whole seconds as formatISO does. *)
(***************************************************************************)
EXTENDS Integers, Sequences, FiniteSets, TLC

VARIABLES
    now,         \* the wall clock, Date.now(), shared by the windows of one machine
    mode,        \* "channel" when 'BroadcastChannel' in window, else "storage"
    ctx,         \* per context: component state and timerSync module state
    revStore,    \* localStorage[REVISION_KEY]
    timerState,  \* localStorage['timerState'], the persisted snapshot
    inbox,       \* per context: messages posted to it and not yet dispatched
    sent,        \* every message passed to broadcastTimerMessage, in order
    recv,        \* per context: every message dispatched to its listeners, in order
    handed,      \* every record passed to onSave, in order
    pool,        \* messages an outside sender may put on the channel
    lastApplied, \* per context: the type of the message its Timer accepted
                 \* last, "none" once the user has acted in the context
    lastOp,      \* the user action of the last step, or the arrival an outside
                 \* sender caused; "none" after any other step
    storageFault, \* whether localStorage throws: "none", "read" (every
                 \* access throws) or "write" (setItem throws)
    sync,        \* the timerSync module of one context taken alone: its
                 \* flags, its channel objects and its listener registrations
    calc,        \* a call of calculateDuration: its arguments and its result
    log          \* the activity log: localStorage['activities'] and
                 \* ['activitiesRevision'], the activities state of App, and
                 \* per context the position in its save handler

vars == <<now, mode, ctx, revStore, timerState, inbox, sent, recv, handed, pool,
          lastApplied, lastOp, storageFault, sync, calc, log>>

----------------------------------------------------------------------------
(* Bounds *)

InitClock == 60000

ClockStep == 1000

MaxTicks == 1

MaxSends == 2

MaxRaceSends == 3

MaxInject == 3

----------------------------------------------------------------------------
(* Values *)

Contexts == {"main", "popup"}

Categories == {"QE work", "AI/coding"}

\* The category the user of each window picks.
Choices(c) == IF c = "main" THEN {"QE work"} ELSE {"AI/coding"}

NULL == "null"

NoTime == -1

\* A startTime string that is present and that new Date() cannot parse.
InvalidTime == -3

NoRev == -1

NoCategory == "undefined"

\* A number field a message does not have: msg.revision is undefined.
Undefined == -2

\* a < b, a <= b and a === b of JavaScript: a comparison with undefined is
\* false, undefined === undefined is true.
Less(a, b) == a # Undefined /\ b # Undefined /\ a < b

LessEq(a, b) == a # Undefined /\ b # Undefined /\ a <= b

\* Text that JSON.parse rejects.
Garbage == [text |-> "{"]

JsonParses(data) == data # Garbage


\* calculateDuration has not been called.
NoCall == [called |-> FALSE]

\* The timerSync module as it is loaded: initialized = false, channel = null,
\* listeners = [].
InitSync ==
    [initialized |-> FALSE, channel |-> 0, channels |-> {}, made |-> 0,
     storageListeners |-> {}, listeners |-> <<>>, regs |-> 0,
     disposers |-> {}, arrivals |-> 0, calls |-> <<>>,
     last |-> [op |-> "load", reg |-> 0]]

\* localStorage.getItem('timerState') === null
NoSnapshot ==
    [present |-> FALSE, isRunning |-> FALSE, startTime |-> NoTime,
     selectedCategory |-> NoCategory, lastUpdate |-> NoTime]

MsPerSecond == 1000

MsPerMinute == 60000

MsgTypes == {"timer-start", "timer-stop", "timer-pause", "timer-save",
             "timer-clear", "category-update"}

MaxClock == InitClock + MaxTicks * ClockStep

Max(a, b) == IF a >= b THEN a ELSE b

\* formatISO(date): an ISO string with second precision.
toISO(t) == (t \div MsPerSecond) * MsPerSecond

\* new Date(iso).getTime() is NaN for a missing or unparsable string.
IsNaN(t) == t \in {NoTime, InvalidTime}

\* Math.max(0, Math.floor((now - start) / 1000))
ElapsedSeconds(t, start) == Max(0, (t - start) \div MsPerSecond)

calculateDurationUnclamped(startIso, endIso) ==
    IF IsNaN(startIso) \/ IsNaN(endIso) THEN 0
    ELSE (endIso - startIso) \div MsPerSecond

\* calculateDuration: parseISO of an invalid string is an Invalid Date, its
\* getTime() is NaN, and NaN >= 0 is false.
calculateDuration(startIso, endIso) ==
    LET duration == (endIso - startIso) \div MsPerSecond
    IN IF IsNaN(startIso) \/ IsNaN(endIso) THEN 0
       ELSE IF duration >= 0 THEN duration ELSE 0

\* parseFromDateTimeInput: a datetime-local value has minute granularity;
\* an unparsable value throws.
parseFromDateTimeInput(input) ==
    IF input = NoTime THEN [ok |-> FALSE, iso |-> NoTime]
    ELSE [ok |-> TRUE, iso |-> toISO((input \div MsPerMinute) * MsPerMinute)]

\* What the start-time field can be set to: a minute in the past, a minute
\* in the future, an unparsable value.
StartInputs == {0, 2 * MsPerMinute, NoTime}

----------------------------------------------------------------------------
(* Components *)

\* Timer props: <Timer> in App.tsx uses the defaults, <Timer> in
\* TimerPopup.tsx sets widgetMode, readFromStorage and writeToStorage.
widgetMode(c) == c = "popup"

\* The writeToStorage prop of the Timer of c.
writeToStorage(w, c) == w.ctx[c].writeToStorage

\* The listeners of a context in the order their effects subscribe them
\* (child effects run before the parent's).
Listeners(c) ==
    IF c = "main" THEN <<"Timer", "App">>
    ELSE <<"Timer", "TimerPopup", "handleTimerSync">>

\* The state updates an effect of the first render has queued for the next
\* render: none, or those of the load effect.
NoUpdates == [set |-> FALSE, startTime |-> NoTime, seconds |-> 0]

InitCtx ==
    [isRunning |-> FALSE, seconds |-> 0, startTime |-> toISO(InitClock),
     timerLast |-> [revision |-> 0, timestamp |-> 0],
     appLast |-> [revision |-> 0, timestamp |-> 0],
     selectedCategory |-> NULL,
     currentRevision |-> 0,
     writeToStorage |-> TRUE,
     queued |-> NoUpdates,
     categoryTimer |-> FALSE,
     mounts |-> 1]

\* The state the handlers read and write, as one value.
World ==
    [ctx |-> ctx, revStore |-> revStore, timerState |-> timerState,
     inbox |-> inbox, sent |-> sent, recv |-> recv, handed |-> handed,
     fault |-> storageFault]

SetWorld(w) ==
    /\ ctx' = w.ctx
    /\ revStore' = w.revStore
    /\ timerState' = w.timerState
    /\ inbox' = w.inbox
    /\ sent' = w.sent
    /\ recv' = w.recv
    /\ handed' = w.handed

SetCtx(w, c, cx) == [w EXCEPT !.ctx = [w.ctx EXCEPT ![c] = cx]]

----------------------------------------------------------------------------
(* utils/timerSync.ts *)

\* const rev = stored ? parseInt(stored, 10) : 0
StoredRev(w) == IF w.revStore = NoRev THEN 0 ELSE w.revStore

nextRevisionUnguarded(w, c) ==
    LET next == StoredRev(w) + 1
    IN [w |-> [SetCtx(w, c, [w.ctx[c] EXCEPT !.currentRevision = next])
                 EXCEPT !.revStore = next],
        rev |-> next]

\* try { read, write, cache } catch { currentRevision += 1 }: setItem throws
\* before the cache is assigned.
nextRevision(w, c) ==
    LET next == StoredRev(w) + 1
        cached == w.ctx[c].currentRevision + 1
    IN IF w.fault = "none"
       THEN [w |-> [SetCtx(w, c, [w.ctx[c] EXCEPT !.currentRevision = next])
                      EXCEPT !.revStore = next],
             rev |-> next]
       ELSE [w |-> SetCtx(w, c, [w.ctx[c] EXCEPT !.currentRevision = cached]),
             rev |-> cached]

syncRevision(w, c, revision) ==
    IF Less(w.ctx[c].currentRevision, revision)
    THEN [SetCtx(w, c, [w.ctx[c] EXCEPT !.currentRevision = revision])
            EXCEPT !.revStore = IF w.fault = "none" THEN revision ELSE @]
    ELSE w

\* JSON.parse(JSON.stringify(msg)): the fields of a message survive as they
\* are, a field that is undefined is dropped and reads as undefined again.
JsonRoundTrip(msg) ==
    [id |-> msg.id, sender |-> msg.sender, type |-> msg.type,
     revision |-> msg.revision, timestamp |-> msg.timestamp,
     isRunning |-> msg.isRunning, startTime |-> msg.startTime,
     selectedCategory |-> msg.selectedCategory]

\* channel.postMessage(msg): one message event in every other context.
ChannelEvents(msg) == <<[kind |-> "message", newValue |-> TRUE, data |-> msg]>>

\* setItem(STORAGE_KEY, json); removeItem(STORAGE_KEY): two storage events
\* in every other context, the second with newValue null.
StorageEvents(msg) ==
    <<[kind |-> "storage", newValue |-> TRUE, data |-> JsonRoundTrip(msg)],
      [kind |-> "storage", newValue |-> FALSE, data |-> JsonRoundTrip(msg)]>>

\* The contexts whose event loops get the events of a send by c.
Recipients(c) == Contexts \ {c}

broadcastTimerMessageWithEcho(w, c, msg) ==
    LET w1 == syncRevision(w, c, msg.revision)
        evs == IF mode = "channel" THEN ChannelEvents(msg)
               ELSE IF w.fault = "none" THEN StorageEvents(msg)
               ELSE <<>>
    IN [w1 EXCEPT
          !.inbox = [d \in Contexts |-> w1.inbox[d] \o evs],
          !.sent = Append(w1.sent, msg)]

broadcastTimerMessage(w, c, msg) ==
    LET w1 == syncRevision(w, c, msg.revision)
        evs == IF mode = "channel" THEN ChannelEvents(msg)
               ELSE IF w.fault = "none" THEN StorageEvents(msg)
               ELSE <<>>
    IN [w1 EXCEPT
          !.inbox = [d \in Contexts |->
                        IF d \in Recipients(c) THEN w1.inbox[d] \o evs
                        ELSE w1.inbox[d]],
          !.sent = Append(w1.sent, msg)]

----------------------------------------------------------------------------
(* The apply-if-newer rule of the listeners *)

IsStaleOnlyWhenOlder(msg, last) ==
    \/ msg.revision < last.revision
    \/ (msg.revision = last.revision /\ msg.timestamp < last.timestamp)

\* msg.revision < last.revision ||
\* (msg.revision === last.revision && msg.timestamp <= last.timestamp)
IsStale(msg, last) ==
    \/ Less(msg.revision, last.revision)
    \/ (msg.revision = last.revision /\ LessEq(msg.timestamp, last.timestamp))

Stamp(msg) == [revision |-> msg.revision, timestamp |-> msg.timestamp]

\* The payload of a message; a field the sender leaves out is undefined.
Payload(isRunning, startTime, selectedCategory) ==
    [isRunning |-> isRunning, startTime |-> startTime,
     selectedCategory |-> selectedCategory]

\* sendMessage of Timer.tsx, App.tsx and TimerPopup.tsx: comp names the
\* lastMsgRef of the component that sends.
sendMessage(w, c, comp, type, payload) ==
    LET r == nextRevision(w, c)
        msg == [id |-> Len(w.sent) + 1, sender |-> c, type |-> type,
                revision |-> r.rev, timestamp |-> now,
                isRunning |-> payload.isRunning,
                startTime |-> payload.startTime,
                selectedCategory |-> payload.selectedCategory]
        cx == IF comp = "Timer"
              THEN [r.w.ctx[c] EXCEPT !.timerLast = Stamp(msg)]
              ELSE [r.w.ctx[c] EXCEPT !.appLast = Stamp(msg)]
    IN broadcastTimerMessage(SetCtx(r.w, c, cx), c, msg)

----------------------------------------------------------------------------
(* components/Timer.tsx: the listener *)

handleIncomingMessage(w, c, msg) ==
    LET cx == w.ctx[c]
        cx1 == [cx EXCEPT !.timerLast = Stamp(msg)]
        start == msg.startTime
    IN IF IsStale(msg, cx.timerLast) THEN w
       ELSE IF msg.type = "timer-start" THEN
           SetCtx(w, c,
               [cx1 EXCEPT
                  !.startTime = IF start # NoTime THEN start ELSE @,
                  !.seconds = IF start # NoTime /\ ~IsNaN(start)
                              THEN ElapsedSeconds(now, start) ELSE @,
                  !.isRunning = TRUE])
       ELSE IF msg.type \in {"timer-pause", "timer-stop"} THEN
           SetCtx(w, c, [cx1 EXCEPT !.isRunning = FALSE])
       ELSE IF msg.type \in {"timer-save", "timer-clear"} THEN
           SetCtx(w, c,
               [cx1 EXCEPT
                  !.isRunning = FALSE,
                  !.seconds = 0,
                  !.startTime = IF start # NoTime THEN start ELSE toISO(now)])
       ELSE SetCtx(w, c, cx1)

(* App.tsx handleTimerMessage and TimerPopup.tsx handleMessage *)

handleTimerMessage(w, c, msg) ==
    LET cx == w.ctx[c]
        cx1 == [cx EXCEPT !.appLast = Stamp(msg)]
    IN IF IsStale(msg, cx.appLast) THEN w
       ELSE IF msg.type = "category-update" THEN
           SetCtx(w, c,
               [cx1 EXCEPT !.selectedCategory =
                   IF msg.selectedCategory = NoCategory THEN NULL
                   ELSE msg.selectedCategory])
       ELSE SetCtx(w, c, cx1)

(* TimerPopup.tsx handleTimerSync: rewrites the persisted snapshot on every
   message; a snapshot that is missing reads as {}. *)

handleTimerSync(w, c, msg) ==
    LET cur == w.timerState
        new == IF msg.type = "category-update" THEN
                   [cur EXCEPT !.selectedCategory =
                       IF msg.selectedCategory = NoCategory THEN NULL
                       ELSE msg.selectedCategory]
               ELSE IF msg.type = "timer-start" THEN
                   [cur EXCEPT !.isRunning = TRUE, !.startTime = msg.startTime]
               ELSE IF msg.type \in {"timer-stop", "timer-pause"} THEN
                   [cur EXCEPT !.isRunning = FALSE]
               ELSE IF msg.type \in {"timer-clear", "timer-save"} THEN
                   [cur EXCEPT !.isRunning = FALSE, !.startTime = msg.startTime]
               ELSE cur
    IN IF w.fault = "none"
       THEN [w EXCEPT !.timerState =
                [new EXCEPT !.present = TRUE, !.lastUpdate = now]]
       ELSE w

Listener(name, w, c, msg) ==
    IF name = "Timer" THEN handleIncomingMessage(w, c, msg)
    ELSE IF name = "handleTimerSync" THEN handleTimerSync(w, c, msg)
    ELSE handleTimerMessage(w, c, msg)

RECURSIVE forEachListener(_, _, _, _)
forEachListener(ls, w, c, msg) ==
    IF ls = <<>> THEN w
    ELSE forEachListener(Tail(ls), Listener(Head(ls), w, c, msg), c, msg)

\* dispatch(msg): syncRevision(msg.revision); listeners.forEach(cb => cb(msg))
dispatch(w, c, msg) ==
    LET w1 == syncRevision(w, c, msg.revision)
        w2 == [w1 EXCEPT !.recv = [@ EXCEPT ![c] = Append(@, msg)]]
    IN forEachListener(Listeners(c), w2, c, msg)

\* handleStorage(e), with JSON.parse(e.newValue) in try/catch, and
\* channel.onmessage
handleEvent(w, c, ev) ==
    IF ev.kind = "storage"
    THEN IF ev.newValue /\ JsonParses(ev.data) THEN dispatch(w, c, ev.data)
         ELSE w
    ELSE dispatch(w, c, ev.data)

----------------------------------------------------------------------------
(* components/Timer.tsx: the effects *)

\* The persist effect runs after a render in which isRunning, startTime or
\* the selectedCategory prop changed, in a Timer with writeToStorage.
Deps(cx) == <<cx.isRunning, cx.startTime, cx.selectedCategory>>

saveState(w, c) ==
    IF w.fault = "none"
    THEN [w EXCEPT !.timerState =
            [present |-> TRUE, isRunning |-> w.ctx[c].isRunning,
             startTime |-> w.ctx[c].startTime,
             selectedCategory |-> w.ctx[c].selectedCategory,
             lastUpdate |-> now]]
    ELSE w

PersistEffect(before, after, c) ==
    IF writeToStorage(after, c) /\ Deps(before.ctx[c]) # Deps(after.ctx[c])
    THEN saveState(after, c)
    ELSE after

TickArmedNeverCleared(cx) == TRUE

\* The tick effect keeps an interval while isRunning and clears it when
\* isRunning or startTime change.
TickArmed(cx) == cx.isRunning

tickUnclamped(w, c) ==
    LET cx == w.ctx[c]
    IN IF ~IsNaN(cx.startTime)
       THEN SetCtx(w, c, [cx EXCEPT !.seconds = (now - cx.startTime) \div MsPerSecond])
       ELSE w

\* The interval callback: Math.max(0, Math.floor((now - start) / 1000)) when
\* both dates are valid.
tick(w, c) ==
    LET cx == w.ctx[c]
    IN IF ~IsNaN(cx.startTime)
       THEN SetCtx(w, c, [cx EXCEPT !.seconds = ElapsedSeconds(now, cx.startTime)])
       ELSE w

----------------------------------------------------------------------------
(* The root components: App.tsx and TimerPopup.tsx *)

\* onSave: handleSaveActivity hands the record to the activity log unless
\* no category is selected.
handleSaveActivity(w, c, duration, startTime, endTime) ==
    IF w.ctx[c].selectedCategory = NULL THEN w
    ELSE [w EXCEPT !.handed =
             Append(@, [ctx |-> c, category |-> w.ctx[c].selectedCategory,
                        duration |-> duration, startTime |-> startTime,
                        endTime |-> endTime])]

\* handleCategorySelect: App.tsx also patches the persisted snapshot.
handleCategorySelect(w, c, category) ==
    LET w1 == SetCtx(w, c, [w.ctx[c] EXCEPT !.selectedCategory = category])
        ts == w1.timerState
        w2 == IF c = "main" /\ w.fault = "none"
              THEN [w1 EXCEPT !.timerState =
                      [ts EXCEPT
                         !.present = TRUE,
                         !.selectedCategory = category,
                         !.startTime = IF @ = NoTime THEN toISO(now) ELSE @]]
              ELSE w1
    IN sendMessage(w2, c, "App",  "category-update",
                   Payload(FALSE, NoTime, category))

----------------------------------------------------------------------------
(* components/Timer.tsx: the user's handlers.  A handler reads the state of
   the render it was created in: cx below is that state. *)

handleStartStop(w, c) ==
    LET cx == w.ctx[c]
        start == cx.startTime
        diffInSeconds == (now - start) \div MsPerSecond
        fresh == [cx EXCEPT
                    !.startTime = IF start > now THEN toISO(now) ELSE @,
                    !.seconds = IF diffInSeconds > 0 THEN diffInSeconds ELSE 0]
    IN IF cx.selectedCategory = NULL THEN w
       ELSE IF ~cx.isRunning THEN
           IF cx.seconds = 0 /\ IsNaN(start)
           THEN SetCtx(w, c, [cx EXCEPT !.startTime = toISO(now),
                                        !.seconds = 0, !.isRunning = TRUE])
           ELSE sendMessage(
                    SetCtx(w, c,
                        [(IF cx.seconds = 0 THEN fresh ELSE cx)
                            EXCEPT !.isRunning = TRUE]),
                    c, "Timer", "timer-start",
                    Payload(TRUE, cx.startTime, NoCategory))
       ELSE sendMessage(SetCtx(w, c, [cx EXCEPT !.isRunning = FALSE]),
                        c, "Timer", "timer-pause",
                        Payload(FALSE, NoTime, NoCategory))

handleStop(w, c) ==
    sendMessage(SetCtx(w, c, [w.ctx[c] EXCEPT !.isRunning = FALSE]),
                c, "Timer", "timer-stop", Payload(FALSE, NoTime, NoCategory))

handleClear(w, c, confirmed) ==
    LET cx == w.ctx[c]
        nowISO == toISO(now)
        w1 == SetCtx(w, c, [cx EXCEPT !.isRunning = FALSE, !.seconds = 0,
                                      !.startTime = nowISO])
        w2 == IF writeToStorage(w, c) THEN [w1 EXCEPT !.timerState = NoSnapshot]
              ELSE w1
    IN IF ~confirmed THEN w
       ELSE sendMessage(w2, c, "Timer", "timer-clear",
                        Payload(FALSE, nowISO, NoCategory))

handleSaveUnguarded(w, c) ==
    LET cx == w.ctx[c]
        nowISO == toISO(now)
        w1 == handleSaveActivity(w, c, cx.seconds, cx.startTime, nowISO)
        w2 == SetCtx(w1, c, [cx EXCEPT !.isRunning = FALSE, !.seconds = 0,
                                       !.startTime = nowISO])
        w3 == IF writeToStorage(w, c) THEN [w2 EXCEPT !.timerState = NoSnapshot]
              ELSE w2
    IN sendMessage(w3, c, "Timer", "timer-save",
                   Payload(FALSE, nowISO, NoCategory))

handleSaveAfterReset(w, c) ==
    LET cx == w.ctx[c]
        nowISO == toISO(now)
        w1 == handleSaveActivity(w, c, 0, nowISO, nowISO)
        w2 == SetCtx(w1, c, [cx EXCEPT !.isRunning = FALSE, !.seconds = 0,
                                       !.startTime = nowISO])
        w3 == IF writeToStorage(w, c) THEN [w2 EXCEPT !.timerState = NoSnapshot]
              ELSE w2
    IN IF cx.selectedCategory = NULL THEN w
       ELSE sendMessage(w3, c, "Timer", "timer-save",
                        Payload(FALSE, nowISO, NoCategory))

handleSave(w, c) ==
    LET cx == w.ctx[c]
        nowISO == toISO(now)
        w1 == handleSaveActivity(w, c, cx.seconds, cx.startTime, nowISO)
        w2 == SetCtx(w1, c, [cx EXCEPT !.isRunning = FALSE, !.seconds = 0,
                                       !.startTime = nowISO])
        w3 == IF writeToStorage(w, c) THEN [w2 EXCEPT !.timerState = NoSnapshot]
              ELSE w2
    IN IF cx.selectedCategory = NULL THEN w
       ELSE sendMessage(w3, c, "Timer", "timer-save",
                        Payload(FALSE, nowISO, NoCategory))

handleStartTimeChangeStalePayload(w, c, input) ==
    LET cx == w.ctx[c]
        parsed == parseFromDateTimeInput(input)
        timeISO == parsed.iso
        nowISO == toISO(now)
        edited == [cx EXCEPT !.startTime = timeISO]
    IN IF ~parsed.ok THEN w
       ELSE IF ~cx.isRunning /\ (IsNaN(timeISO) \/ timeISO > now)
       THEN SetCtx(w, c, [cx EXCEPT !.startTime = nowISO])
       ELSE sendMessage(
                SetCtx(w, c,
                    IF ~cx.isRunning
                    THEN [edited EXCEPT !.seconds = ElapsedSeconds(now, timeISO)]
                    ELSE edited),
                c, "Timer", "timer-start",
                Payload(cx.isRunning, cx.startTime, NoCategory))

handleStartTimeChange(w, c, input) ==
    LET cx == w.ctx[c]
        parsed == parseFromDateTimeInput(input)
        timeISO == parsed.iso
        nowISO == toISO(now)
        edited == [cx EXCEPT !.startTime = timeISO]
    IN IF ~parsed.ok THEN w
       ELSE IF ~cx.isRunning /\ (IsNaN(timeISO) \/ timeISO > now)
       THEN SetCtx(w, c, [cx EXCEPT !.startTime = nowISO])
       ELSE sendMessage(
                SetCtx(w, c,
                    IF ~cx.isRunning
                    THEN [edited EXCEPT !.seconds = ElapsedSeconds(now, timeISO)]
                    ELSE edited),
                c, "Timer", "timer-start",
                Payload(cx.isRunning, timeISO, NoCategory))

\* App.handleClearAllData: after window.confirm, localStorage.clear() removes
\* the revision and the snapshot, and setSelectedCategory(null) follows.
handleClearAllData(w, c, confirmed) ==
    IF ~confirmed THEN w
    ELSE [SetCtx(w, c, [w.ctx[c] EXCEPT !.selectedCategory = NULL])
            EXCEPT !.revStore = NoRev, !.timerState = NoSnapshot]

----------------------------------------------------------------------------
(* Startup of a window: main.tsx renders App or TimerPopup in a new document *)

\* useState(() => ... timerState.selectedCategory || null) in App,
\* useState(null) in TimerPopup.
initialCategory(w, c) ==
    IF c = "main" /\ w.timerState.present
                  /\ w.timerState.selectedCategory \notin {NULL, NoCategory}
    THEN w.timerState.selectedCategory
    ELSE NULL

\* The load effect of the Timer: a snapshot with isRunning queues
\* setIsRunning(true), setStartTime(S) and, for a valid S, setSeconds.
loadEffect(w, c) ==
    IF w.timerState.present /\ w.timerState.isRunning = TRUE
    THEN [set |-> TRUE, startTime |-> w.timerState.startTime,
          seconds |-> IF ~IsNaN(w.timerState.startTime)
                      THEN ElapsedSeconds(now, w.timerState.startTime)
                      ELSE 0]
    ELSE NoUpdates

mountPersistFirst(w, c) ==
    LET first == [InitCtx EXCEPT
                    !.startTime = toISO(now),
                    !.selectedCategory = initialCategory(w, c),
                    !.currentRevision = StoredRev(w),
                    !.writeToStorage = w.ctx[c].writeToStorage,
                    !.categoryTimer = (c = "popup"),
                    !.mounts = w.ctx[c].mounts + 1]
        w1 == saveState(SetCtx(w, c, first), c)
    IN SetCtx(w1, c, [first EXCEPT !.queued = loadEffect(w1, c)])

\* The first render of window c and its effects, in the order the components
\* define them: initTimerSync reads the revision, the load effect reads the
\* snapshot, the persist effect writes the state of the first render, and
\* TimerPopup sets the timeout of its category load.
mount(w, c) ==
    LET first == [InitCtx EXCEPT
                    !.startTime = toISO(now),
                    !.selectedCategory = initialCategory(w, c),
                    !.currentRevision = IF w.fault = "none" THEN StoredRev(w)
                                        ELSE 0,
                    !.writeToStorage = w.ctx[c].writeToStorage,
                    !.queued = loadEffect(w, c),
                    !.categoryTimer = (c = "popup"),
                    !.mounts = w.ctx[c].mounts + 1]
        w1 == [SetCtx(w, c, first) EXCEPT !.inbox = [@ EXCEPT ![c] = <<>>]]
    IN IF writeToStorage(w1, c) THEN saveState(w1, c) ELSE w1

\* The render that applies the state the load effect has queued.
rerender(w, c) ==
    LET cx == w.ctx[c]
    IN SetCtx(w, c, [cx EXCEPT !.isRunning = TRUE,
                               !.startTime = cx.queued.startTime,
                               !.seconds = cx.queued.seconds,
                               !.queued = NoUpdates])

\* The timeout of TimerPopup: setSelectedCategory(parsed.selectedCategory ??
\* null) unless the snapshot has no selectedCategory.
categoryLoad(w, c) ==
    LET cx == [w.ctx[c] EXCEPT !.categoryTimer = FALSE]
    IN IF w.fault = "none" /\ w.timerState.present
                           /\ w.timerState.selectedCategory # NoCategory
       THEN SetCtx(w, c, [cx EXCEPT
                !.selectedCategory = w.timerState.selectedCategory])
       ELSE SetCtx(w, c, cx)

----------------------------------------------------------------------------
(* The activity log: utils/storage.ts withActivitiesAtomic, the save handlers
   of App.tsx and TimerPopup.tsx, and the activities effects of App.tsx.
   Every access to localStorage is one step, since the two windows run in
   separate event loops on one storage area. *)

\* for (let i = 0; i < 5; i++)
MaxAttempts == 5

\* crypto.randomUUID(): the n-th activity window c saves.
activityOf(c, n) == [by |-> c, n |-> n]

NoActivity == [by |-> "nobody", n |-> 0]

\* A window outside its save handler.
NoProc ==
    [pc |-> "idle", i |-> 0, data |-> <<>>, rev |-> 0, item |-> NoActivity,
     before |-> <<>>, saves |-> 0]

InitLog ==
    [activities |-> <<>>, revision |-> 0, state |-> <<>>, dirty |-> FALSE,
     events |-> <<>>, full |-> FALSE, proc |-> [c \in Contexts |-> NoProc]]

Returned(p) == p.pc \in {"idle", "done"}

\* A setItem of key 'activities' by window c: the value, and the storage
\* event the main window gets for a write of the popup.
setActivitiesItem(l, c, value) ==
    [l EXCEPT !.activities = value,
              !.events = IF c = "popup" THEN Append(@, value) ELSE @]

\* onSave enters handleSaveActivity with a category selected.  App queues
\* setActivities(prev => [newActivity, ...prev]) and calls
\* withActivitiesAtomic; TimerPopup first reads the key itself.
beginSave(l, c) ==
    LET p == l.proc[c]
        item == activityOf(c, p.saves + 1)
        q == [NoProc EXCEPT !.item = item, !.before = l.activities,
                            !.saves = p.saves + 1]
    IN IF c = "main"
       THEN [l EXCEPT !.state = <<item>> \o @, !.dirty = TRUE,
                      !.proc = [@ EXCEPT ![c] = [q EXCEPT !.pc = "data"]]]
       ELSE [l EXCEPT !.proc = [@ EXCEPT ![c] = [q EXCEPT !.pc = "read"]]]

\* The next access to localStorage of the save handler of c.
\*   read, direct: TimerPopup.handleSaveActivity, getItem and the setItem of
\*     [newActivity, ...activities], which is outside any try;
\*   data, rev, write, bump, verify: one round of withActivitiesAtomic.
storageStep(l, c) ==
    LET p == l.proc[c]
        Goto(l1, q) == [l1 EXCEPT !.proc = [@ EXCEPT ![c] = q]]
    IN CASE p.pc = "read" ->
              Goto(l, [p EXCEPT !.data = l.activities, !.pc = "direct"])
         [] p.pc = "direct" ->
              IF l.full THEN Goto(l, [p EXCEPT !.pc = "done"])
              ELSE Goto(setActivitiesItem(l, c, <<p.item>> \o p.data),
                        [p EXCEPT !.pc = "data"])
         [] p.pc = "data" ->
              Goto(l, [p EXCEPT !.data = l.activities, !.pc = "rev"])
         [] p.pc = "rev" ->
              Goto(l, [p EXCEPT !.rev = l.revision, !.pc = "write"])
         [] p.pc = "write" ->
              IF l.full THEN Goto(l, [p EXCEPT !.pc = "verify"])
              ELSE Goto(setActivitiesItem(l, c, <<p.item>> \o p.data),
                        [p EXCEPT !.pc = "bump"])
         [] p.pc = "bump" ->
              IF l.full THEN Goto(l, [p EXCEPT !.pc = "verify"])
              ELSE Goto([l EXCEPT !.revision = p.rev + 1],
                        [p EXCEPT !.pc = "verify"])
         [] p.pc = "verify" ->
              IF l.revision = p.rev + 1 THEN Goto(l, [p EXCEPT !.pc = "done"])
              ELSE IF p.i + 1 < MaxAttempts
              THEN Goto(l, [p EXCEPT !.i = @ + 1, !.pc = "data"])
              ELSE Goto(l, [p EXCEPT !.i = @ + 1, !.pc = "done"])
         [] OTHER -> l

\* useEffect(() => { try { setItem('activities', activities) } catch {} },
\* [activities]) of App.
activitiesEffect(l) ==
    IF l.full THEN [l EXCEPT !.dirty = FALSE]
    ELSE [l EXCEPT !.activities = l.state, !.dirty = FALSE]

\* handleStorage of App: e.key === 'activities' && e.newValue, then
\* setActivities(parsed).
activitiesEvent(l) ==
    [l EXCEPT !.state = Head(l.events), !.dirty = TRUE,
              !.events = Tail(l.events)]

----------------------------------------------------------------------------
(* The state machine *)

Op(name, c) == [op |-> name, ctx |-> c]

\* A user action and the value the user entered.
OpWith(name, c, input) == [op |-> name, ctx |-> c, input |-> input]

\* localStorage as an earlier session left it: empty, or with the snapshot
\* of a selected category and the revision of its category-update.
Stored ==
    {[revStore |-> NoRev, selectedCategory |-> NULL],
     [revStore |-> 1, selectedCategory |-> "QE work"]}

\* The main window and then the popup have opened on localStorage st and
\* their mount effects have run: initTimerSync reads the revision, App reads
\* the category of the snapshot, the persist effect of each Timer writes the
\* snapshot of its first render (the popup's, written last, has no
\* category), and the popup's timeout loads the category of that snapshot.
Opened(st) ==
    [ctx |-> [c \in Contexts |->
                [InitCtx EXCEPT
                    !.selectedCategory = IF c = "main" THEN st.selectedCategory
                                         ELSE NULL,
                    !.currentRevision = IF st.revStore = NoRev THEN 0
                                        ELSE st.revStore]],
     revStore |-> st.revStore,
     timerState |-> [present |-> TRUE, isRunning |-> FALSE,
                     startTime |-> toISO(InitClock),
                     selectedCategory |-> NULL,
                     lastUpdate |-> InitClock],
     inbox |-> [c \in Contexts |-> <<>>],
     sent |-> <<>>,
     recv |-> [c \in Contexts |-> <<>>],
     handed |-> <<>>,
     fault |-> "none"]

InitWorld == Opened([revStore |-> NoRev, selectedCategory |-> NULL])

InitWindows(w) ==
    /\ now = InitClock
    /\ ctx = w.ctx
    /\ revStore = w.revStore
    /\ timerState = w.timerState
    /\ inbox = w.inbox
    /\ sent = w.sent
    /\ recv = w.recv
    /\ handed = w.handed
    /\ lastApplied = [c \in Contexts |-> "none"]
    /\ lastOp = Op("none", "main")
    /\ storageFault = w.fault
    /\ sync = InitSync
    /\ calc = NoCall
    /\ log = InitLog

Init ==
    /\ \E st \in Stored : InitWindows(Opened(st))
    /\ mode \in {"channel", "storage"}
    /\ pool = <<>>

\* A user action of context c: the handler, then the effects of the render.
UserActionAs(op, c, w) ==
    /\ SetWorld(PersistEffect(World, w, c))
    /\ lastApplied' = [lastApplied EXCEPT ![c] = "none"]
    /\ lastOp' = op
    /\ UNCHANGED <<now, mode, pool, storageFault, sync, calc, log>>

UserAction(name, c, w) == UserActionAs(Op(name, c), c, w)

CanSend(k) == Len(sent) < k

StartStopUpTo(c, k) ==
    /\ CanSend(k)
    /\ UserAction("startStop", c, handleStartStop(World, c))

CategorySelectUpTo(c, k) ==
    /\ CanSend(k)
    /\ \E category \in Choices(c) :
          UserAction("categorySelect", c, handleCategorySelect(World, c, category))

StartStop(c) == StartStopUpTo(c, MaxSends)

\* The stop button is rendered while isRunning.
Stop(c) ==
    /\ CanSend(MaxSends)
    /\ ctx[c].isRunning
    /\ UserAction("stop", c, handleStop(World, c))

\* The clear button is rendered while seconds > 0.
Clear(c) ==
    /\ CanSend(MaxSends)
    /\ ctx[c].seconds > 0
    /\ \E confirmed \in BOOLEAN :
          UserAction("clear", c, handleClear(World, c, confirmed))

\* The save button is rendered while seconds > 0.
Save(c) ==
    /\ CanSend(MaxSends)
    /\ ctx[c].seconds > 0
    /\ UserAction("save", c, handleSave(World, c))

\* The start-time field is rendered outside widget mode and is disabled
\* while isRunning.
StartTimeChange(c) ==
    /\ CanSend(MaxSends)
    /\ ~widgetMode(c)
    /\ ~ctx[c].isRunning
    /\ \E input \in StartInputs :
          UserAction("startTimeChange", c, handleStartTimeChange(World, c, input))

CategorySelect(c) == CategorySelectUpTo(c, MaxSends)

\* The interval of the tick effect fires.
Tick(c) ==
    /\ TickArmed(ctx[c])
    /\ SetWorld(tick(World, c))
    /\ lastOp' = Op("none", "main")
    /\ UNCHANGED <<now, mode, pool, lastApplied, storageFault, sync, calc, log>>

\* The type of msg if the Timer of c accepts it, else what it accepted before.
Accepted(c, msg) ==
    IF IsStale(msg, ctx[c].timerLast) THEN lastApplied[c] ELSE msg.type

\* The event loop of c takes its next event.
takeEvent(w, c) ==
    handleEvent([w EXCEPT !.inbox = [@ EXCEPT ![c] = Tail(@)]], c,
                Head(w.inbox[c]))

\* The storage events of removeItem(STORAGE_KEY) that are next in c:
\* handleStorage returns from each at once (newValue is null).
RECURSIVE takeRemovals(_, _)
takeRemovals(w, c) ==
    IF w.inbox[c] # <<>> /\ ~Head(w.inbox[c]).newValue
    THEN takeRemovals(takeEvent(w, c), c)
    ELSE w

\* The event loop of c takes the next channel or storage event, and the
\* removeItem event that follows a storage event.
Deliver(c) ==
    /\ inbox[c] # <<>>
    /\ LET ev == Head(inbox[c])
       IN /\ SetWorld(PersistEffect(World,
                                    takeRemovals(takeEvent(World, c), c), c))
          /\ lastApplied' =
                IF ev.newValue
                THEN [lastApplied EXCEPT ![c] = Accepted(c, ev.data)]
                ELSE lastApplied
    /\ lastOp' = Op("none", "main")
    /\ UNCHANGED <<now, mode, pool, storageFault, sync, calc, log>>

AdvanceClock ==
    /\ now + ClockStep <= MaxClock
    /\ now' = now + ClockStep
    /\ lastOp' = Op("none", "main")
    /\ UNCHANGED <<mode, ctx, revStore, timerState, inbox, sent, recv, handed,
                   pool, lastApplied, storageFault, sync, calc, log>>

Next ==
    \/ \E c \in Contexts : StartStop(c)
    \/ \E c \in Contexts : Stop(c)
    \/ \E c \in Contexts : Clear(c)
    \/ \E c \in Contexts : Save(c)
    \/ \E c \in Contexts : StartTimeChange(c)
    \/ \E c \in Contexts : CategorySelect(c)
    \/ \E c \in Contexts : Tick(c)
    \/ \E c \in Contexts : Deliver(c)
    \/ AdvanceClock

Spec == Init /\ [][Next]_vars

----------------------------------------------------------------------------
(* The revision counter under a burst of sends: the same windows, with the
   sends that call nextRevision and the deliveries that call syncRevision. *)

RaceStartStop(c) == StartStopUpTo(c, MaxRaceSends)

RaceCategorySelect(c) == CategorySelectUpTo(c, MaxRaceSends)

NextRace ==
    \/ \E c \in Contexts : RaceStartStop(c)
    \/ \E c \in Contexts : RaceCategorySelect(c)
    \/ \E c \in Contexts : Deliver(c)

SpecRace == Init /\ [][NextRace]_vars

----------------------------------------------------------------------------
(* The listeners under arbitrary arrivals: messages of the shapes the
   handlers send, stamped by an outside sender, reach a window in any order
   and any number of times. *)

\* The payloads the handlers above build.
PoolPayloads ==
    {[type |-> "timer-start", p |-> Payload(TRUE, 0, NoCategory)],
     [type |-> "timer-start", p |-> Payload(FALSE, 0, NoCategory)],
     [type |-> "timer-pause", p |-> Payload(FALSE, NoTime, NoCategory)],
     [type |-> "timer-stop", p |-> Payload(FALSE, NoTime, NoCategory)],
     [type |-> "timer-save", p |-> Payload(FALSE, toISO(InitClock), NoCategory)],
     [type |-> "timer-clear", p |-> Payload(FALSE, toISO(InitClock), NoCategory)]}
    \cup {[type |-> "category-update", p |-> Payload(FALSE, NoTime, cat)] :
              cat \in Categories}

PoolMessages ==
    {[id |-> 0, sender |-> "outside", type |-> pp.type,
      revision |-> r, timestamp |-> t,
      isRunning |-> pp.p.isRunning, startTime |-> pp.p.startTime,
      selectedCategory |-> pp.p.selectedCategory] :
        pp \in PoolPayloads, r \in 1..2, t \in {InitClock - ClockStep, InitClock}}

InitApply ==
    /\ InitWindows(InitWorld)
    /\ mode = "channel"
    /\ \E m1 \in PoolMessages, m2 \in PoolMessages :
          /\ ~IsStale(m2, Stamp(m1)) \/ Stamp(m1) = Stamp(m2)
          /\ pool = <<m1, m2>>

\* channel.onmessage fires in c with a message of the pool.
Inject(c) ==
    /\ Len(recv["main"]) + Len(recv["popup"]) < MaxInject
    /\ \E i \in 1..Len(pool) :
          /\ SetWorld(PersistEffect(World, dispatch(World, c, pool[i]), c))
          /\ lastApplied' = [lastApplied EXCEPT ![c] = Accepted(c, pool[i])]
    /\ lastOp' = Op("inject", c)
    /\ UNCHANGED <<now, mode, pool, storageFault, sync, calc, log>>

NextApply ==
    \/ \E c \in Contexts : Inject(c)
    \/ AdvanceClock

SpecApply == InitApply /\ [][NextApply]_vars

----------------------------------------------------------------------------
(* Start times that are not in the receiver's past: messages stamped by a
   context whose clock runs ahead, or carrying a startTime that does not
   parse, reach the windows, and the user starts and pauses the timer. *)

MaxSkewSends == 2

\* An instant the clock of the windows does not reach.
FutureTime == toISO(MaxClock) + MsPerMinute

\* What the outside context sends, in the order of its revisions.
SkewPayloads ==
    <<[type |-> "timer-clear", p |-> Payload(FALSE, InvalidTime, NoCategory)],
      [type |-> "timer-save", p |-> Payload(FALSE, FutureTime, NoCategory)],
      [type |-> "timer-start", p |-> Payload(TRUE, FutureTime, NoCategory)]>>

SkewMessages ==
    [i \in 1..Len(SkewPayloads) |->
        [id |-> 0, sender |-> "outside", type |-> SkewPayloads[i].type,
         revision |-> i + 1, timestamp |-> InitClock,
         isRunning |-> SkewPayloads[i].p.isRunning,
         startTime |-> SkewPayloads[i].p.startTime,
         selectedCategory |-> SkewPayloads[i].p.selectedCategory]]

InitSkew ==
    /\ \E st \in Stored : InitWindows(Opened(st))
    /\ mode = "channel"
    /\ pool = SkewMessages

SkewStartStop(c) == StartStopUpTo(c, MaxSkewSends)

NextSkew ==
    \/ \E c \in Contexts : Inject(c)
    \/ \E c \in Contexts : SkewStartStop(c)
    \/ \E c \in Contexts : Deliver(c)
    \/ \E c \in Contexts : Tick(c)
    \/ AdvanceClock

SpecSkew == InitSkew /\ [][NextSkew]_vars

----------------------------------------------------------------------------
(* The one-second interval: timers started by the user, or by a timer-start
   whose startTime is still ahead, tick while the clock runs. *)

MaxTickSends == 1

InitTick ==
    /\ \E st \in Stored : InitWindows(Opened(st))
    /\ mode = "channel"
    /\ pool = <<SkewMessages[Len(SkewMessages)]>>

TickStartStop(c) == StartStopUpTo(c, MaxTickSends)

NextTick ==
    \/ \E c \in Contexts : Inject(c)
    \/ \E c \in Contexts : TickStartStop(c)
    \/ \E c \in Contexts : Tick(c)
    \/ \E c \in Contexts : Deliver(c)
    \/ AdvanceClock

SpecTick == InitTick /\ [][NextTick]_vars

----------------------------------------------------------------------------
(* Write authority: the same windows and user actions, with the popup's
   Timer given writeToStorage = true, as TimerPopup.tsx has it, or false, as
   the prop allows. *)

Configured(w, popupWrites) ==
    [w EXCEPT !.ctx = [@ EXCEPT !["popup"] =
                          [@ EXCEPT !.writeToStorage = popupWrites]]]

InitAuthority ==
    /\ \E st \in Stored, popupWrites \in BOOLEAN :
          InitWindows(Configured(Opened(st), popupWrites))
    /\ mode \in {"channel", "storage"}
    /\ pool = <<>>

SpecAuthority == InitAuthority /\ [][Next]_vars

----------------------------------------------------------------------------
(* Reload: a window is opened or reloaded while the other one works. *)

MaxReloadSends == 1

\* Mounts of both windows together, the two of Init included.
MaxMounts == 3

\* The first render of c has not left state updates to apply.
Ready(c) == ~ctx[c].queued.set

\* The user reloads window c, or closes it and opens it again.
Reload(c) ==
    /\ ctx["main"].mounts + ctx["popup"].mounts < MaxMounts
    /\ \A d \in Contexts : Ready(d)
    /\ SetWorld(mount(World, c))
    /\ lastApplied' = [lastApplied EXCEPT ![c] = "none"]
    /\ lastOp' = Op("reload", c)
    /\ UNCHANGED <<now, mode, pool, storageFault, sync, calc, log>>

\* React renders c again with the state the load effect has set; the
\* persist effect follows when its dependencies have changed.
Rerender(c) ==
    /\ ~Ready(c)
    /\ SetWorld(PersistEffect(World, rerender(World, c), c))
    /\ lastOp' = Op("rerender", c)
    /\ UNCHANGED <<now, mode, pool, lastApplied, storageFault, sync, calc, log>>

\* The 100 ms timeout of TimerPopup fires, and the render that follows.
CategoryLoad(c) ==
    /\ Ready(c)
    /\ ctx[c].categoryTimer
    /\ SetWorld(PersistEffect(World, categoryLoad(World, c), c))
    /\ lastOp' = Op("categoryLoad", c)
    /\ UNCHANGED <<now, mode, pool, lastApplied, storageFault, sync, calc, log>>

\* The timeout fires within the second in which it was set.
Started(c) == Ready(c) /\ ~ctx[c].categoryTimer

ReloadStartStop(c) == Started(c) /\ StartStopUpTo(c, MaxReloadSends)

ReloadCategorySelect(c) == Started(c) /\ CategorySelectUpTo(c, MaxReloadSends)

NextReload ==
    \/ \E c \in Contexts : Reload(c)
    \/ \E c \in Contexts : Rerender(c)
    \/ \E c \in Contexts : CategoryLoad(c)
    \/ \E c \in Contexts : ReloadStartStop(c)
    \/ \E c \in Contexts : ReloadCategorySelect(c)
    \/ \E c \in Contexts : Ready(c) /\ Tick(c)
    \/ \E c \in Contexts : Ready(c) /\ Deliver(c)
    \/ (\A c \in Contexts : Started(c)) /\ AdvanceClock

SpecReload == Init /\ [][NextReload]_vars

----------------------------------------------------------------------------
(* Clear all data: the main window empties localStorage between timer
   actions. *)

MaxClearSends == 3

\* The main window's 'clear all data' button.
ClearAllData(c) ==
    /\ c = "main"
    /\ \E confirmed \in BOOLEAN :
          UserAction("clearAllData", c, handleClearAllData(World, c, confirmed))

NextClear ==
    \/ \E c \in Contexts : StartStopUpTo(c, MaxClearSends)
    \/ \E c \in Contexts : CategorySelectUpTo(c, MaxClearSends)
    \/ \E c \in Contexts : ClearAllData(c)
    \/ \E c \in Contexts : Tick(c)
    \/ \E c \in Contexts : Deliver(c)
    \/ AdvanceClock

SpecClear == Init /\ [][NextClear]_vars

----------------------------------------------------------------------------
(* Pause and resume: the start/pause button, the one-second interval and the
   clock over several seconds. *)

MaxPauseSends == 3

MaxPauseTicks == 2

PauseStartStop(c) == StartStopUpTo(c, MaxPauseSends)

\* A second passes.  The interval of a running Timer fires every second, so
\* the seconds a running Timer shows are those of the current second before
\* the next one begins.
PauseClock ==
    /\ now + ClockStep <= InitClock + MaxPauseTicks * ClockStep
    /\ \A c \in Contexts :
          (TickArmed(ctx[c]) /\ ~IsNaN(ctx[c].startTime)) =>
              ctx[c].seconds = ElapsedSeconds(now, ctx[c].startTime)
    /\ now' = now + ClockStep
    /\ lastOp' = Op("none", "main")
    /\ UNCHANGED <<mode, ctx, revStore, timerState, inbox, sent, recv, handed,
                   pool, lastApplied, storageFault, sync, calc, log>>

NextPause ==
    \/ \E c \in Contexts : PauseStartStop(c)
    \/ \E c \in Contexts : Tick(c)
    \/ \E c \in Contexts : Deliver(c)
    \/ PauseClock

SpecPause == Init /\ [][NextPause]_vars

----------------------------------------------------------------------------
(* The start-time field: the user edits the start time of a timer that is
   not running, and starts and pauses timers. *)

MaxEditSends == 2

\* What the user enters: the minute the clock starts in, half a minute
\* before it (the field drops the seconds), the minute before, the minute
\* after, the epoch, an unparsable value.
EditInputs ==
    {InitClock, InitClock - 30 * MsPerSecond, InitClock - MsPerMinute,
     InitClock + MsPerMinute, 0, NoTime}

EditStartTime(c) ==
    /\ CanSend(MaxEditSends)
    /\ ~widgetMode(c)
    /\ ~ctx[c].isRunning
    /\ \E input \in EditInputs :
          UserActionAs(OpWith("startTimeChange", c, input), c,
                       handleStartTimeChange(World, c, input))

EditStartStop(c) == StartStopUpTo(c, MaxEditSends)

NextEdit ==
    \/ \E c \in Contexts : EditStartTime(c)
    \/ \E c \in Contexts : EditStartStop(c)
    \/ \E c \in Contexts : Tick(c)
    \/ \E c \in Contexts : Deliver(c)
    \/ AdvanceClock

SpecEdit == Init /\ [][NextEdit]_vars

----------------------------------------------------------------------------
(* dateHelpers.ts calculateDuration, called on any two ISO strings. *)

\* Instants around whole seconds, an hour and a bit apart, and an invalid
\* string.
DurationInputs ==
    {NoTime, 0, 1, 999, 1000, 1001, 1999, 2000, 59999, 60000, 3661000, 3661999}

InitDuration ==
    /\ InitWindows(InitWorld)
    /\ mode = "channel"
    /\ pool = <<>>

Calculate ==
    /\ \E startIso \in DurationInputs, endIso \in DurationInputs :
          calc' = [called |-> TRUE, startIso |-> startIso, endIso |-> endIso,
                   result |-> calculateDuration(startIso, endIso)]
    /\ UNCHANGED <<now, mode, ctx, revStore, timerState, inbox, sent, recv,
                   handed, pool, lastApplied, lastOp, storageFault, sync, log>>

NextDuration == Calculate

SpecDuration == InitDuration /\ [][NextDuration]_vars

----------------------------------------------------------------------------
(* The activity log: both windows save activities while the main window
   keeps its activities state persisted. *)

MaxLogSaves == 1

\* localStorage as earlier saves left it: no activities, or one activity
\* and the revision of its save; with room left or full.
StoredLogs ==
    {[InitLog EXCEPT !.activities = st.activities, !.state = st.activities,
                     !.revision = st.revision, !.full = full] :
        st \in {[activities |-> <<>>, revision |-> 0],
                [activities |-> <<activityOf("main", 0)>>, revision |-> 1]},
        full \in BOOLEAN}

InitLogSpec ==
    /\ now = InitClock
    /\ mode \in {"channel", "storage"}
    /\ ctx = InitWorld.ctx
    /\ revStore = InitWorld.revStore
    /\ timerState = InitWorld.timerState
    /\ inbox = InitWorld.inbox
    /\ sent = InitWorld.sent
    /\ recv = InitWorld.recv
    /\ handed = InitWorld.handed
    /\ pool = <<>>
    /\ lastApplied = [c \in Contexts |-> "none"]
    /\ lastOp = Op("none", "main")
    /\ storageFault = InitWorld.fault
    /\ sync = InitSync
    /\ calc = NoCall
    /\ log \in StoredLogs

LogStep(l) ==
    /\ log' = l
    /\ UNCHANGED <<now, mode, ctx, revStore, timerState, inbox, sent, recv,
                   handed, pool, lastApplied, lastOp, storageFault, sync, calc>>

\* A save in window c; a window runs one handler at a time.
SaveActivity(c) ==
    /\ Returned(log.proc[c])
    /\ log.proc[c].saves < MaxLogSaves
    /\ LogStep(beginSave(log, c))

StorageStep(c) ==
    /\ ~Returned(log.proc[c])
    /\ LogStep(storageStep(log, c))

\* The render of App after a handler, and its activities effect.
ActivitiesEffect ==
    /\ log.dirty
    /\ Returned(log.proc["main"])
    /\ LogStep(activitiesEffect(log))

\* The event loop of the main window takes a storage event.
ActivitiesEvent ==
    /\ log.events # <<>>
    /\ Returned(log.proc["main"])
    /\ LogStep(activitiesEvent(log))

NextLog ==
    \/ \E c \in Contexts : SaveActivity(c)
    \/ \E c \in Contexts : StorageStep(c)
    \/ ActivitiesEffect
    \/ ActivitiesEvent

SpecLog == InitLogSpec /\ [][NextLog]_vars

----------------------------------------------------------------------------
(* The revision counter while localStorage fails: the windows send and
   receive, and storage starts and stops throwing in between. *)

MaxFaultSends == 3

FaultStartStop(c) == StartStopUpTo(c, MaxFaultSends)

FaultCategorySelect(c) == CategorySelectUpTo(c, MaxFaultSends)

\* localStorage starts to throw (access denied, quota reached) or recovers.
StorageChanges ==
    /\ storageFault' \in {"none", "read", "write"} \ {storageFault}
    /\ lastOp' = Op("none", "main")
    /\ UNCHANGED <<now, mode, ctx, revStore, timerState, inbox, sent, recv,
                   handed, pool, lastApplied, sync, calc, log>>

NextFault ==
    \/ \E c \in Contexts : FaultStartStop(c)
    \/ \E c \in Contexts : FaultCategorySelect(c)
    \/ \E c \in Contexts : Deliver(c)
    \/ StorageChanges

SpecFault == Init /\ [][NextFault]_vars

----------------------------------------------------------------------------
(* Malformed arrivals: next to a message of the pool a window gets text that
   does not parse (storage events only) or a message without revision and
   timestamp. *)

MaxBadInject == 3

MalformedMessages ==
    {[id |-> 0, sender |-> "outside", type |-> pp.type,
      revision |-> Undefined, timestamp |-> Undefined,
      isRunning |-> pp.p.isRunning, startTime |-> pp.p.startTime,
      selectedCategory |-> pp.p.selectedCategory] : pp \in PoolPayloads}

Malformed(data) == data = Garbage \/ data \in MalformedMessages

InitMalformed ==
    /\ InitWindows(InitWorld)
    /\ mode \in {"channel", "storage"}
    /\ \E good \in PoolMessages, bad \in MalformedMessages \cup {Garbage} :
          /\ bad = Garbage => mode = "storage"
          /\ good.timestamp = InitClock
          /\ pool = <<good, bad>>

\* The event an outside sender causes in c: a message event or the storage
\* event of its setItem.
InjectEvent(c) ==
    /\ Len(recv["main"]) + Len(recv["popup"]) < MaxBadInject
    /\ \E i \in 1..Len(pool) :
          LET ev == [kind |-> IF mode = "channel" THEN "message" ELSE "storage",
                     newValue |-> TRUE, data |-> pool[i]]
          IN /\ SetWorld(PersistEffect(World, handleEvent(World, c, ev), c))
             /\ lastApplied' = lastApplied
             /\ lastOp' = Op(IF Malformed(pool[i]) THEN "injectMalformed"
                             ELSE "inject", c)
    /\ UNCHANGED <<now, mode, pool, storageFault, sync, calc, log>>

NextMalformed == \E c \in Contexts : InjectEvent(c)

SpecMalformed == InitMalformed /\ [][NextMalformed]_vars

----------------------------------------------------------------------------
(* utils/timerSync.ts taken alone: the flags of the module, the channel
   objects and storage listeners the context holds, and the registrations of
   its listeners, under any order of calls. *)

MaxChannels == 3

MaxRegs == 3

MaxArrivals == 2

ListenerFns == {"handleIncomingMessage", "handleTimerMessage"}

initTimerSyncUnguarded(s) ==
    IF mode = "channel"
    THEN [s EXCEPT !.initialized = TRUE, !.made = @ + 1,
                   !.channel = s.made + 1,
                   !.channels = @ \cup {s.made + 1}]
    ELSE [s EXCEPT !.initialized = TRUE,
                   !.storageListeners = @ \cup {"handleStorage"}]

\* if (initialized) return; a new BroadcastChannel with onmessage, or
\* addEventListener('storage', handleStorage), which the window keeps once.
initTimerSync(s) ==
    IF s.initialized THEN s
    ELSE IF mode = "channel"
    THEN [s EXCEPT !.initialized = TRUE, !.made = @ + 1,
                   !.channel = s.made + 1,
                   !.channels = @ \cup {s.made + 1}]
    ELSE [s EXCEPT !.initialized = TRUE,
                   !.storageListeners = @ \cup {"handleStorage"}]

closeTimerSync(s) ==
    [s EXCEPT !.channels = @ \ {s.channel},
              !.channel = 0,
              !.storageListeners = @ \ {"handleStorage"},
              !.initialized = FALSE]

\* listeners.push(listener); the disposer closes over the function.
addTimerSyncListener(s, fn) ==
    LET r == [fn |-> fn, reg |-> s.regs + 1]
    IN [s EXCEPT !.listeners = Append(@, r), !.regs = @ + 1,
                 !.disposers = @ \cup {r}]

\* listeners.indexOf(listener): 0 when the function is not in the array.
indexOf(ls, fn) ==
    IF \E i \in 1..Len(ls) : ls[i].fn = fn
    THEN CHOOSE i \in 1..Len(ls) :
            ls[i].fn = fn /\ \A j \in 1..(i - 1) : ls[j].fn # fn
    ELSE 0

\* listeners.splice(idx, 1)
splice(ls, idx) == SubSeq(ls, 1, idx - 1) \o SubSeq(ls, idx + 1, Len(ls))

\* The disposer addTimerSyncListener returned for d.
dispose(s, d) ==
    LET idx == indexOf(s.listeners, d.fn)
    IN IF idx # 0 THEN [s EXCEPT !.listeners = splice(@, idx)] ELSE s

\* The handlers the context holds for inbound messages: the open channel
\* objects with onmessage, or the storage listeners of the window.
Handlers(s) == IF mode = "channel" THEN s.channels ELSE s.storageListeners

\* The registrations called when one message comes in: every handler runs
\* dispatch, which calls every listener in order.
RECURSIVE dispatchedTo(_, _)
dispatchedTo(handlers, ls) ==
    IF handlers = {} THEN <<>>
    ELSE LET h == CHOOSE x \in handlers : TRUE
         IN [i \in 1..Len(ls) |-> ls[i].reg] \o dispatchedTo(handlers \ {h}, ls)

SyncStep(op, reg, s) ==
    /\ sync' = [s EXCEPT !.last = [op |-> op, reg |-> reg],
                         !.calls = IF op = "message" THEN @ ELSE <<>>]
    /\ UNCHANGED <<now, mode, ctx, revStore, timerState, inbox, sent, recv,
                   handed, pool, lastApplied, lastOp, storageFault, calc, log>>

SyncInit ==
    /\ sync.initialized \/ mode = "storage" \/ sync.made < MaxChannels
    /\ SyncStep("init", 0, initTimerSync(sync))

SyncClose == SyncStep("close", 0, closeTimerSync(sync))

\* broadcastTimerMessage: if (!initialized) initTimerSync()
SyncBroadcast ==
    /\ sync.initialized \/ mode = "storage" \/ sync.made < MaxChannels
    /\ SyncStep("broadcast", 0, initTimerSync(sync))

SyncSubscribe ==
    /\ sync.regs < MaxRegs
    /\ \E fn \in ListenerFns :
          SyncStep("subscribe", sync.regs + 1, addTimerSyncListener(sync, fn))

SyncDispose ==
    \E d \in sync.disposers : SyncStep("dispose", d.reg, dispose(sync, d))

\* Another context posts a message.
SyncMessage ==
    /\ sync.arrivals < MaxArrivals
    /\ SyncStep("message", 0,
                [sync EXCEPT !.arrivals = @ + 1,
                             !.calls = dispatchedTo(Handlers(sync),
                                                    sync.listeners)])

InitSyncSpec ==
    /\ InitWindows(InitWorld)
    /\ mode \in {"channel", "storage"}
    /\ pool = <<>>

NextSync ==
    \/ SyncInit
    \/ SyncClose
    \/ SyncBroadcast
    \/ SyncSubscribe
    \/ SyncDispose
    \/ SyncMessage

SpecSync == InitSyncSpec /\ [][NextSync]_vars

----------------------------------------------------------------------------
(* Properties *)

TimerStateOf(cx) == <<cx.isRunning, cx.startTime, cx.selectedCategory>>

\* The order of the messages: a is newer than b.
NewerThan(a, b) ==
    \/ a.revision > b.revision
    \/ (a.revision = b.revision /\ a.timestamp > b.timestamp)

Newest(stamps) == CHOOSE s \in stamps : \A t \in stamps : ~NewerThan(t, s)

\* The last-applied pointer of a context: the newer of its listeners' pointers.
LastApplied(c) == Newest({ctx[c].timerLast, ctx[c].appLast})

\* Every message that was sent has been dispatched where it was posted.
Quiescent == \A c \in Contexts : \A i \in 1..Len(inbox[c]) : ~inbox[c][i].newValue

SentBy(c) ==
    LET FromC(m) == m.sender = c
    IN SelectSeq(sent, FromC)

RevValue(r) == IF r = NoRev THEN 0 ELSE r

\* This step dispatches a message in c.
Dispatches(c) ==
    /\ inbox[c] # <<>>
    /\ Head(inbox[c]).newValue
    /\ recv'[c] = Append(recv[c], Head(inbox[c]).data)

\* C1: once every emitted message has been delivered to every other context,
\* all contexts hold the same last-applied (revision, timestamp) pair and the
\* same TimerState (running, startTime, selectedCategory).
C1_EventualConvergence ==
    Quiescent =>
        \A c, d \in Contexts :
            /\ LastApplied(c) = LastApplied(d)
            /\ TimerStateOf(ctx[c]) = TimerStateOf(ctx[d])

\* The state of c had its two arrivals come in revision order.
InRevisionOrder(c) ==
    dispatch(dispatch(InitWorld, c, recv[c][2]), c, recv[c][1]).ctx[c]

\* C2: a context that receives M2 and then M1, with M1.revision < M2.revision,
\* ends in the same TimerState as a context that receives M1 and then M2.
C2_OutOfOrderConvergence ==
    \A c \in Contexts :
        (Len(recv[c]) = 2 /\ recv[c][2].revision < recv[c][1].revision) =>
            TimerStateOf(ctx[c]) = TimerStateOf(InRevisionOrder(c))

\* This step brings c the message it was brought last.
Redelivers(c) ==
    /\ lastOp' = Op("inject", c)
    /\ recv[c] # <<>>
    /\ recv'[c] = Append(recv[c], recv[c][Len(recv[c])])

\* C3: delivering the same message to a context again leaves its TimerState,
\* its elapsed seconds, its last-applied pointers and its cached revision as
\* they were after the first delivery.
C3_IdempotentApplication ==
    [][\A c \in Contexts : Redelivers(c) => ctx'[c] = ctx[c]]_vars

\* A window whose running Timer accepted a message, then got it again after
\* the clock had moved on: applying it again would have set other seconds.
C3_Witness ==
    \E c \in Contexts :
        /\ lastOp = Op("inject", c)
        /\ Len(recv[c]) >= 2
        /\ recv[c][Len(recv[c])] = recv[c][Len(recv[c]) - 1]
        /\ ctx[c].timerLast = Stamp(recv[c][Len(recv[c])])
        /\ recv[c][Len(recv[c])].type = "timer-start"
        /\ ctx[c].seconds # ElapsedSeconds(now, ctx[c].startTime)

\* The newest message c has applied or sent, as far as its pointers and its
\* sends tell.
NewestOf(c) ==
    Newest({ctx[c].timerLast, ctx[c].appLast}
           \cup {Stamp(sent[i]) : i \in {j \in 1..Len(sent) : sent[j].sender = c}})

\* C4: a context applies an inbound message if and only if the message is
\* strictly newer than the newest message the context has applied or sent;
\* an accepted message becomes the last-applied pointer, a dropped one
\* changes neither the TimerState nor the pointer.
C4_ApplyIfNewer ==
    [][\A c \in Contexts :
          Dispatches(c) =>
              LET msg == Head(inbox[c]).data
              IN IF NewerThan(Stamp(msg), NewestOf(c))
                 THEN /\ ctx'[c].timerLast = Stamp(msg)
                      /\ ctx'[c].appLast = Stamp(msg)
                 ELSE /\ TimerStateOf(ctx'[c]) = TimerStateOf(ctx[c])
                      /\ ctx'[c].timerLast = ctx[c].timerLast
                      /\ ctx'[c].appLast = ctx[c].appLast]_vars

\* C5: the values nextRevision returns to one context are strictly increasing.
C5_NextMonotonic ==
    \A c \in Contexts :
        \A i, j \in 1..Len(SentBy(c)) :
            i < j => SentBy(c)[i].revision < SentBy(c)[j].revision

\* C6: syncRevision, called when a message is dispatched in a context, lowers
\* neither the cached revision of the context nor the persisted revision.
C6_ObserveNeverDecreases ==
    [][\A c \in Contexts :
          Dispatches(c) =>
              /\ RevValue(revStore') >= RevValue(revStore)
              /\ ctx'[c].currentRevision >= ctx[c].currentRevision]_vars

\* C7: no two messages that were sent carry the same revision.
C7_RevisionsDistinct ==
    \A i, j \in 1..Len(sent) : i # j => sent[i].revision # sent[j].revision

RejectedAction(c) ==
    /\ lastOp' \in {Op("startStop", c), Op("save", c)}
    /\ ctx[c].selectedCategory = NULL

\* C9: with no category selected, start/resume and save change nothing:
\* no component state, no pointer, no revision, no snapshot, no record to the
\* activity log, no message.
C9_ValidationChangesNothing ==
    [][\A c \in Contexts :
          RejectedAction(c) =>
              UNCHANGED <<ctx, revStore, timerState, inbox, sent, recv, handed>>]_vars

\* Save was pressed in a running window that has seconds to save and no
\* category.
C9_Witness ==
    \E c \in Contexts :
        /\ lastOp = Op("save", c)
        /\ ctx[c].selectedCategory = NULL
        /\ ctx[c].isRunning
        /\ ctx[c].seconds > 0

\* How often the message with this id was dispatched in c, and how often it
\* is still to be dispatched there.
Dispatched(c, id) == Cardinality({i \in 1..Len(recv[c]) : recv[c][i].id = id})

InFlight(c, id) ==
    Cardinality({i \in 1..Len(inbox[c]) :
                    inbox[c][i].newValue /\ inbox[c][i].data.id = id})

\* C10: a message passed to broadcastTimerMessage reaches the listeners of
\* every other context exactly once and never those of the sender.
C10_NoLocalEcho ==
    \A i \in 1..Len(sent) : \A c \in Contexts :
        IF c = sent[i].sender
        THEN Dispatched(c, i) = 0 /\ InFlight(c, i) = 0
        ELSE Dispatched(c, i) + InFlight(c, i) = 1

\* In the storage-event fallback two messages were sent and every one has
\* been dispatched in the other window.
C10_Witness ==
    /\ mode = "storage"
    /\ Len(sent) = 2
    /\ \A c \in Contexts : inbox[c] = <<>>
    /\ \E c \in Contexts : Len(recv[c]) = 2

\* How often the registration reg was called for the last inbound message.
CallsOf(reg) ==
    Cardinality({i \in 1..Len(sync.calls) : sync.calls[i] = reg})

\* C11: whatever the order of initTimerSync, closeTimerSync, sends and
\* subscriptions, the context holds at most one channel handler or storage
\* listener, and an inbound message calls each registered listener exactly
\* once while the module is initialized, and never more than once.
C11_InitIdempotent ==
    /\ Cardinality(Handlers(sync)) <= 1
    /\ sync.last.op = "message" =>
          \A i \in 1..Len(sync.listeners) :
              CallsOf(sync.listeners[i].reg) =
                  IF sync.initialized THEN 1 ELSE 0

\* A message came in after init, close, a second init and a send, with two
\* listeners subscribed.
C11_Witness ==
    /\ sync.last.op = "message"
    /\ sync.made >= 2
    /\ sync.initialized
    /\ Len(sync.listeners) = 2
    /\ Len(sync.calls) = 2

\* The functions dispatch calls, in order.
FnsOf(ls) == [i \in 1..Len(ls) |-> ls[i].fn]

\* The listeners without the registration reg.
Without(ls, reg) ==
    LET Other(r) == r.reg # reg
    IN SelectSeq(ls, Other)

\* C12: a disposer removes exactly the registration it was returned for and
\* leaves every other registration, also one of the same function; called
\* again it removes nothing.
C12_DisposerExact ==
    [][sync'.last.op = "dispose" =>
          FnsOf(sync'.listeners) =
              FnsOf(Without(sync.listeners, sync'.last.reg))]_vars

\* C13: a malformed inbound message changes nothing in the context it comes
\* to: TimerState, seconds, the pointers of its listeners and the cached
\* revision stay, and so does the persisted revision; later messages are
\* then judged against the same pointers as before.
C13_MalformedDropped ==
    [][\A c \in Contexts :
          lastOp' = Op("injectMalformed", c) =>
              ctx'[c] = ctx[c] /\ revStore' = revStore]_vars

\* This step is a user action of c that sends a message.
Sends(c) ==
    /\ lastOp'.ctx = c
    /\ lastOp'.op # "none"
    /\ Len(sent') = Len(sent) + 1

\* C14: when reading or writing the persisted revision throws, nextRevision
\* returns the cached revision plus 1 (the revision of the message sent),
\* keeps it as the cached revision and leaves the persisted record alone.
C14_NextSafeOnStorageFailure ==
    [][\A c \in Contexts :
          (Sends(c) /\ storageFault # "none") =>
              /\ sent'[Len(sent')].revision = ctx[c].currentRevision + 1
              /\ ctx'[c].currentRevision = ctx[c].currentRevision + 1
              /\ revStore' = revStore]_vars

\* A window has just sent while setItem throws, and the revision it got is
\* not the one the persisted record would have given.
C14_Witness ==
    \E c \in Contexts :
        /\ lastOp.ctx = c /\ lastOp.op # "none"
        /\ storageFault = "write"
        /\ sent # <<>>
        /\ sent[Len(sent)].sender = c
        /\ sent[Len(sent)].revision = ctx[c].currentRevision
        /\ sent[Len(sent)].revision # RevValue(revStore) + 1
        /\ sent[Len(sent)].revision # RevValue(revStore)

StartsFromIdle(c) ==
    /\ lastOp' = Op("startStop", c)
    /\ ~ctx[c].isRunning
    /\ ctx[c].seconds = 0
    /\ ctx[c].selectedCategory # NULL

\* What start resolves the start time of c to: the one c holds when it is
\* valid and not after now, else the current time.
ResolvedStart(c) ==
    IF ~IsNaN(ctx[c].startTime) /\ ctx[c].startTime <= now
    THEN ctx[c].startTime
    ELSE toISO(now)

\* C16: a start from Idle emits one timer-start whose startTime is the one
\* the sender adopts: the start time it held when that is valid and not
\* after now, the current time when it is in the future or invalid.
C16_StartCarriesResolvedStart ==
    [][\A c \in Contexts :
          StartsFromIdle(c) =>
              /\ ctx'[c].startTime = ResolvedStart(c)
              /\ Len(sent') = Len(sent) + 1
              /\ sent'[Len(sent')].type = "timer-start"
              /\ sent'[Len(sent')].startTime = ctx'[c].startTime]_vars

\* This step dispatches in c a timer-start that the Timer of c accepts and
\* whose startTime is after the current time of c.
AcceptsFutureStart(c) ==
    /\ Len(recv'[c]) = Len(recv[c]) + 1
    /\ LET msg == recv'[c][Len(recv'[c])]
       IN /\ msg.type = "timer-start"
          /\ ~IsStale(msg, ctx[c].timerLast)
          /\ msg.startTime > now

\* C17: a context that accepts a timer-start whose startTime is after its
\* own current time holds its own current time as startTime afterwards, and
\* 0 elapsed seconds.
C17_FutureStartNormalised ==
    [][\A c \in Contexts :
          AcceptsFutureStart(c) =>
              /\ ctx'[c].startTime = toISO(now)
              /\ ctx'[c].seconds = 0]_vars

\* This step is the pause button pressed in c.
Pauses(c) ==
    /\ lastOp' = Op("startStop", c)
    /\ ctx[c].selectedCategory # NULL
    /\ ctx[c].isRunning

\* c is Paused before and after this step.
StaysPaused(c) ==
    /\ ~ctx[c].isRunning /\ ctx[c].seconds > 0
    /\ ~ctx'[c].isRunning

\* This step is the start button pressed in c while c is Paused.
Resumes(c) ==
    /\ lastOp' = Op("startStop", c)
    /\ ctx[c].selectedCategory # NULL
    /\ ~ctx[c].isRunning
    /\ ctx[c].seconds > 0

\* C18: a pause leaves the elapsed seconds as they are and stops the timer,
\* the elapsed seconds do not change while the timer is Paused, and a resume
\* continues from them: it leaves a running timer whose startTime lies the
\* frozen seconds before now, so that the time spent Paused is not counted.
C18_PauseFreezesResumeContinues ==
    [][\A c \in Contexts :
          /\ Pauses(c) =>
                 ~ctx'[c].isRunning /\ ctx'[c].seconds = ctx[c].seconds
          /\ StaysPaused(c) => ctx'[c].seconds = ctx[c].seconds
          /\ Resumes(c) =>
                 /\ ctx'[c].isRunning
                 /\ ctx'[c].seconds = ctx[c].seconds
                 /\ ElapsedSeconds(now, ctx'[c].startTime) = ctx[c].seconds]_vars

\* This step is an edit of the start-time field of c, not running, to a
\* value that parses to an instant not after now.
EditsStartTime(c, input) ==
    /\ lastOp' = OpWith("startTimeChange", c, input)
    /\ ~ctx[c].isRunning
    /\ parseFromDateTimeInput(input).ok
    /\ parseFromDateTimeInput(input).iso <= now

\* This step dispatches in c the timer-start of a start-time edit (its
\* payload says not running) and the Timer of c accepts it.
AcceptsEdit(c) ==
    /\ Len(recv'[c]) = Len(recv[c]) + 1
    /\ LET msg == recv'[c][Len(recv'[c])]
       IN /\ msg.type = "timer-start"
          /\ ~msg.isRunning
          /\ ~IsStale(msg, ctx[c].timerLast)

\* C19: an edit of the start time of a timer that is not running, to a valid
\* instant not after now, sets the sender's startTime to the parsed instant
\* and its seconds to max(0, now - startTime), leaves it not running, and
\* emits one timer-start carrying that startTime and the sender's running
\* value; a context that accepts the message holds the same startTime.
C19_StartTimeEdit ==
    [][/\ \A c \in Contexts : \A input \in EditInputs :
             EditsStartTime(c, input) =>
                 LET start == parseFromDateTimeInput(input).iso
                 IN /\ ctx'[c].startTime = start
                    /\ ctx'[c].seconds = Max(0, (now - start) \div MsPerSecond)
                    /\ ~ctx'[c].isRunning
                    /\ Len(sent') = Len(sent) + 1
                    /\ sent'[Len(sent')].sender = c
                    /\ sent'[Len(sent')].type = "timer-start"
                    /\ sent'[Len(sent')].startTime = start
                    /\ sent'[Len(sent')].isRunning = ctx[c].isRunning
       /\ \A c \in Contexts :
             AcceptsEdit(c) =>
                 ctx'[c].startTime = recv'[c][Len(recv'[c])].startTime]_vars

\* The main window, not running, holds the start time of an edit a minute
\* back and the seconds since then, and the popup has received the
\* timer-start of the edit and holds the same start time.
C19_Witness ==
    \E i \in 1..Len(sent) :
        /\ sent[i].sender = "main"
        /\ sent[i].type = "timer-start"
        /\ ~sent[i].isRunning
        /\ sent[i].startTime = parseFromDateTimeInput(InitClock - MsPerMinute).iso
        /\ ~ctx["main"].isRunning
        /\ ctx["main"].startTime = sent[i].startTime
        /\ ctx["main"].seconds >= 60
        /\ Len(recv["popup"]) > 0
        /\ recv["popup"][Len(recv["popup"])] = sent[i]
        /\ ctx["popup"].startTime = sent[i].startTime

\* This step is the save button pressed in c with a category selected.
Saves(c) ==
    /\ lastOp' = Op("save", c)
    /\ ctx[c].selectedCategory # NULL

\* C20: a save with a category and seconds to save hands one record to the
\* activity log, made of the seconds and the startTime the Timer held and
\* the current time; it leaves the Timer not running with 0 seconds and the
\* current time as startTime, and emits one timer-save carrying that
\* startTime.  Save is not pressed in a Timer that holds 0 seconds, and
\* nothing is handed over except by such a save.
C20_SaveHandsOneRecord ==
    [][/\ \A c \in Contexts :
             (Saves(c) /\ ctx[c].seconds > 0) =>
                 /\ handed' = Append(handed,
                        [ctx |-> c, category |-> ctx[c].selectedCategory,
                         duration |-> ctx[c].seconds,
                         startTime |-> ctx[c].startTime,
                         endTime |-> toISO(now)])
                 /\ ~ctx'[c].isRunning
                 /\ ctx'[c].seconds = 0
                 /\ ctx'[c].startTime = toISO(now)
                 /\ Len(sent') = Len(sent) + 1
                 /\ sent'[Len(sent')].sender = c
                 /\ sent'[Len(sent')].type = "timer-save"
                 /\ sent'[Len(sent')].startTime = ctx'[c].startTime
       /\ \A c \in Contexts :
             lastOp' = Op("save", c) => ctx[c].seconds > 0
       /\ handed' # handed =>
             \E c \in Contexts : Saves(c) /\ ctx[c].seconds > 0]_vars

\* A window has just saved the seconds of a timer that had run: the record
\* handed over holds them and an earlier startTime, the window is Idle with
\* the time of the save as startTime, and the last message sent is its
\* timer-save.
C20_Witness ==
    \E c \in Contexts :
        /\ lastOp = Op("save", c)
        /\ Len(handed) = 1
        /\ handed[1].ctx = c
        /\ handed[1].duration > 0
        /\ handed[1].startTime < handed[1].endTime
        /\ ~ctx[c].isRunning /\ ctx[c].seconds = 0
        /\ ctx[c].startTime = handed[1].endTime
        /\ sent # <<>>
        /\ sent[Len(sent)].type = "timer-save"
        /\ sent[Len(sent)].startTime = ctx[c].startTime

\* running, startTime and elapsed of a Timer.
TimerFields(cx) == <<cx.isRunning, cx.startTime, cx.seconds>>

\* This step is a user action in the Timer of c that changes its running
\* flag, its start time or its elapsed seconds.
UserTransition(c) ==
    /\ lastOp'.ctx = c
    /\ lastOp'.op \in {"startStop", "stop", "save", "clear", "startTimeChange"}
    /\ TimerFields(ctx'[c]) # TimerFields(ctx[c])

\* The kind of message that belongs to the user action op in a Timer that
\* holds cx.
KindOf(op, cx) ==
    IF op = "startStop"
    THEN (IF cx.isRunning THEN "timer-pause" ELSE "timer-start")
    ELSE IF op = "stop" THEN "timer-stop"
    ELSE IF op = "save" THEN "timer-save"
    ELSE IF op = "clear" THEN "timer-clear"
    ELSE "timer-start"

\* C21: a user action that changes running, startTime or elapsed of a Timer
\* emits exactly one message, of the kind of the action, from that context,
\* with the revision nextRevision returns there.
C21_TransitionEmitsOnce ==
    [][\A c \in Contexts :
          UserTransition(c) =>
              /\ Len(sent') = Len(sent) + 1
              /\ sent'[Len(sent')].sender = c
              /\ sent'[Len(sent')].type = KindOf(lastOp'.op, ctx[c])
              /\ sent'[Len(sent')].revision = nextRevision(World, c).rev]_vars

\* This step is neither a user action nor an arrival nor the clock: it is
\* the interval of a tick effect firing.
TickStep ==
    /\ lastOp' = Op("none", "main")
    /\ recv' = recv
    /\ now' = now

TimerButton(c) ==
    /\ lastOp'.ctx = c
    /\ lastOp'.op \in {"startStop", "stop", "save", "clear"}

\* This step dispatches a message in c.
Arrives(c) == Len(recv'[c]) > Len(recv[c])

StartsUp(c) == lastOp' = Op("reload", c)

FinishesStartup(c) == lastOp' = Op("rerender", c)

C24_ReloadRecovery ==
    [][\A c \in Contexts :
          /\ (StartsUp(c) /\ timerState.present /\ timerState.isRunning = TRUE) =>
                 /\ ~Ready(c)'
                 /\ ctx'[c].queued.startTime = timerState.startTime
                 /\ recv'[c] = recv[c]
          /\ (StartsUp(c) /\ ~(timerState.present /\ timerState.isRunning = TRUE)) =>
                 Ready(c)'
          /\ FinishesStartup(c) =>
                 LET S == ctx[c].queued.startTime
                 IN /\ ctx'[c].isRunning
                    /\ ctx'[c].startTime = S
                    /\ ~IsNaN(S) => ctx'[c].seconds = ElapsedSeconds(now, S)
                    /\ recv'[c] = recv[c]
                    /\ timerState'.present
                    /\ timerState'.isRunning = TRUE
                    /\ timerState'.startTime = S]_vars

\* A window has started up on the snapshot of a timer that had been running
\* for a second or more.
C24_Witness ==
    \E c \in Contexts :
        /\ lastOp = Op("rerender", c)
        /\ ctx[c].isRunning
        /\ ctx[c].seconds > 0
        /\ timerState.isRunning = TRUE
        /\ timerState.startTime = ctx[c].startTime

\* C29: opening the popup does not disturb the shared snapshot.  When the
\* snapshot holds the category the main window has selected, every step of
\* the popup's startup leaves the snapshot's selectedCategory, isRunning and
\* startTime as they were, and the category the popup loads at the end of
\* its startup is that category.
PopupStartupStep ==
    /\ lastOp'.ctx = "popup"
    /\ lastOp'.op \in {"reload", "rerender", "categoryLoad"}

SnapshotFields(ts) == <<ts.selectedCategory, ts.isRunning, ts.startTime>>

C29_PopupStartupKeepsSnapshot ==
    [][/\ (PopupStartupStep /\ timerState.present) =>
             /\ timerState'.present
             /\ SnapshotFields(timerState') = SnapshotFields(timerState)
       /\ (lastOp' = Op("categoryLoad", "popup") /\ Ready("main")) =>
             ctx'["popup"].selectedCategory = ctx["main"].selectedCategory]_vars

\* C25: no stale rejection of fresh actions.  When no sync message is in
\* flight, the message the next user action (start, pause, stop, save, clear,
\* category select) emits is not stale for the listener that applies it in
\* any other context: the Timer for the timer messages, the root component
\* for category-update.
FreshAction ==
    /\ Quiescent
    /\ lastOp'.op \in {"startStop", "stop", "save", "clear", "categorySelect"}
    /\ Len(sent') = Len(sent) + 1

AppliedBy(d, msg) ==
    IF msg.type = "category-update" THEN ~IsStale(msg, ctx[d].appLast)
    ELSE ~IsStale(msg, ctx[d].timerLast)

C25_FreshActionAccepted ==
    [][FreshAction =>
          \A d \in Contexts \ {lastOp'.ctx} :
              AppliedBy(d, sent'[Len(sent')])]_vars

\* C26: a receiver never becomes Running because of a message from a context
\* that was not running.  A context that accepts a timer-start whose payload
\* says isRunning = false is not running after applying it.
C26_StoppedSenderStopsReceiver ==
    [][\A c \in Contexts : AcceptsEdit(c) => ~ctx'[c].isRunning]_vars

\* How often activity a occurs in list acts.
RECURSIVE Occurrences(_, _)
Occurrences(a, acts) ==
    IF acts = <<>> THEN 0
    ELSE (IF Head(acts) = a THEN 1 ELSE 0) + Occurrences(a, Tail(acts))

\* C27: each save performed in the popup adds exactly one record to the
\* persisted activity list.  When the popup's save handler has returned, with
\* room in localStorage and the main window not having saved or written
\* meanwhile, the persisted list is the list the handler found with the new
\* activity prepended once.
PopupSavedAlone ==
    /\ log.proc["popup"].pc = "done"
    /\ log.proc["main"].pc = "idle"
    /\ ~log.full
    /\ ~log.dirty
    /\ Len(log.events) = 2

C27_PopupSaveAddsOne ==
    PopupSavedAlone =>
        log.activities = <<log.proc["popup"].item>> \o log.proc["popup"].before

\* C28: withActivitiesAtomic applies its update exactly once and loses
\* nothing under any interleaving of the two windows.  A call makes at most
\* five attempts, and when every save handler has returned, no effect or
\* storage event is pending and localStorage had room, the persisted list
\* holds the activity of every save exactly once.
LogSettled ==
    /\ \A c \in Contexts : log.proc[c].pc = "done"
    /\ ~log.dirty
    /\ log.events = <<>>
    /\ ~log.full

C28_AtomicUpdateOnce ==
    /\ \A c \in Contexts : log.proc[c].i <= MaxAttempts
    /\ LogSettled =>
          \A c \in Contexts :
              Occurrences(log.proc[c].item, log.activities) = 1

\* C30: the last-applied pointer only moves forward.  In every context no
\* step, whether it accepts an inbound message or emits one, leaves the
\* pointer of a listener older in the newer-than order than it was.
C30_PointerMovesForward ==
    [][\A c \in Contexts :
          /\ ~NewerThan(ctx[c].timerLast, ctx'[c].timerLast)
          /\ ~NewerThan(ctx[c].appLast, ctx'[c].appLast)]_vars

====
